---- MODULE Spec2Model ----
(***************************************************************************)
(* Model of the ledger core of quantum_blockchain_dashboard.py: the        *)
(* Fernet envelope (simulate_qkd_key / encrypt_data / decrypt_data), Block *)
(* and Blockchain.                                                         *)
(*                                                                         *)
(* Python strings and bytes are sequences of one-character strings.  A     *)
(* Python value is a record [t |-> type tag, v |-> content].  The result   *)
(* of a call is a record [exc |-> "" or the exception raised, val |-> the  *)
(* value returned].                                                        *)
(***************************************************************************)
EXTENDS Integers, Sequences, FiniteSets, TLC

VARIABLES
    chain,        \* Blockchain.chain
    access_logs,  \* Blockchain.access_logs
    now,          \* the wall clock read by time.time() and datetime.now()
    adds,         \* the number of add_block calls that returned a block
    ret,          \* the last call: [op, arg, exc, val]
    tamper,       \* what was changed in the chain from outside the class, if anything
    keys,         \* the keys simulate_qkd_key has returned
    sealed,       \* the last successful encrypt_data call: its payload, key and token
    calls         \* per caller, the add_block call it is in: the line reached, the locals

vars == <<chain, access_logs, now, adds, ret, tamper, keys, sealed, calls>>

\* ------------------------------------------------------------- bounds
MaxAdds == 2
MaxTime == 1
MaxKeys == 2

\* ------------------------------------------------------ Python values
PyStrV(s) == [t |-> "str", v |-> s]
PyBytes(s) == [t |-> "bytes", v |-> s]
PyInt(n) == [t |-> "int", v |-> n]
PyList(s) == [t |-> "list", v |-> s]
PyTuple(s) == [t |-> "tuple", v |-> s]
PyDict(s) == [t |-> "dict", v |-> s]

Ok(x) == [exc |-> "", val |-> x]
Raise(e) == [exc |-> e, val |-> <<>>]

Min(a, b) == IF a < b THEN a ELSE b

Digit(d) == <<"0", "1", "2", "3", "4", "5", "6", "7", "8", "9">>[d + 1]

\* str(n) of a non-negative int
RECURSIVE IntStr(_)
IntStr(n) == IF n < 10 THEN <<Digit(n)>> ELSE IntStr(n \div 10) \o <<Digit(n % 10)>>

\* str(x) of a float holding a whole number of seconds, as time.time() is modelled
FloatStr(x) == IntStr(x) \o <<".", "0">>

\* what an f-string puts for {self.data}: the text itself, or the repr b'...' of bytes
FormatData(d) ==
    IF d.t = "bytes" THEN <<"b", "'">> \o d.v \o <<"'">> ELSE d.v

\* a lone surrogate code point: str.encode() raises UnicodeEncodeError on it
Surrogate == "\\ud800"

CanEncode(s) == \A i \in 1..Len(s) : s[i] # Surrogate

\* hashlib.sha256(...).hexdigest(): an injective digest, written <s>
sha256_hexdigest(s) == <<"<">> \o s \o <<">">>

\* strftime('%Y-%m-%d %H:%M:%S') of a time
FormatTime(x) == IntStr(x)

\* ------------------------------------------------- the Fernet envelope
\* simulate_qkd_key(): the urlsafe base64 of 32 random bytes; key n of the model
simulate_qkd_key(n) == <<"K", Digit(n)>>

\* Fernet(key) accepts the base64 of exactly 32 bytes and raises ValueError otherwise
IsFernetKey(key) == Len(key) = 2 /\ key[1] = "K"

\* Fernet.encrypt: the token binds the IV, the key and the plaintext; written
\* g, iv, key, plaintext.  The authentication tag verifies under that key only.
fernet_encrypt(key, iv, plaintext) == <<"g", iv>> \o key \o plaintext

\* Fernet.decrypt that does not verify the tag before it returns the plaintext
fernet_decrypt_unverified(key, token) ==
    IF Len(token) < 4 \/ token[1] # "g" THEN Raise("InvalidToken")
    ELSE Ok(SubSeq(token, 5, Len(token)))

fernet_decrypt(key, token) ==
    IF Len(token) < 4 \/ token[1] # "g" THEN Raise("InvalidToken")
    ELSE IF SubSeq(token, 3, 4) # key THEN Raise("InvalidToken")
    ELSE Ok(SubSeq(token, 5, Len(token)))

\* what json.dumps accepts: int, str, list and tuple of such, dict with int or str keys
RECURSIVE Serializable(_)
Serializable(x) ==
    CASE x.t \in {"int", "str"} -> TRUE
      [] x.t \in {"list", "tuple"} -> \A i \in 1..Len(x.v) : Serializable(x.v[i])
      [] x.t = "dict" -> \A i \in 1..Len(x.v) :
                            /\ x.v[i][1].t \in {"int", "str"}
                            /\ Serializable(x.v[i][2])
      [] OTHER -> FALSE

Quoted(s) == <<"\"">> \o s \o <<"\"">>

\* json.dumps: a tuple is written as an array, an int key as a string key
RECURSIVE json_dumps(_)
RECURSIVE json_items(_, _)
RECURSIVE json_members(_, _)
json_dumps(x) ==
    CASE x.t = "int" -> IntStr(x.v)
      [] x.t = "str" -> Quoted(x.v)
      [] x.t \in {"list", "tuple"} -> <<"[">> \o json_items(x.v, 1) \o <<"]">>
      [] x.t = "dict" -> <<"{">> \o json_members(x.v, 1) \o <<"}">>
json_items(s, i) ==
    IF i > Len(s) THEN <<>>
    ELSE (IF i > 1 THEN <<",", " ">> ELSE <<>>) \o json_dumps(s[i]) \o json_items(s, i + 1)
json_members(s, i) ==
    IF i > Len(s) THEN <<>>
    ELSE (IF i > 1 THEN <<",", " ">> ELSE <<>>)
            \o Quoted(IF s[i][1].t = "int" THEN IntStr(s[i][1].v) ELSE s[i][1].v)
            \o <<":", " ">> \o json_dumps(s[i][2])
            \o json_members(s, i + 1)

\* the values json.loads can return: int, str, list, dict with str keys
JsonAtoms == {PyInt(1), PyInt(23), PyStrV(<<"U", "S">>), PyStrV(<<"1">>)}
JsonKeys == {PyStrV(<<"a">>), PyStrV(<<"1">>)}
JsonValues ==
    JsonAtoms \cup {PyList(<<>>), PyDict(<<>>)}
        \cup {PyList(<<a>>) : a \in JsonAtoms}
        \cup {PyDict(<< <<k, a>> >>) : k \in JsonKeys, a \in JsonAtoms}

\* json.loads: the value whose JSON text this is; JSONDecodeError when there is none
json_loads(text) ==
    IF \E x \in JsonValues : json_dumps(x) = text
    THEN Ok(CHOOSE x \in JsonValues : json_dumps(x) = text)
    ELSE Raise("JSONDecodeError")

encrypt_data(data, key, iv) ==
    IF ~IsFernetKey(key) THEN Raise("ValueError")
    ELSE IF ~Serializable(data) THEN Raise("TypeError")
    ELSE Ok(PyBytes(fernet_encrypt(key, iv, json_dumps(data))))

decrypt_data(encrypted_data, key) ==
    IF ~IsFernetKey(key) THEN Raise("ValueError")
    ELSE LET plain == fernet_decrypt(key, encrypted_data.v)
         IN  IF plain.exc # "" THEN Raise(plain.exc) ELSE json_loads(plain.val)

\* ------------------------------------------------------------- Block
block_string(b) ==
    IntStr(b.index) \o FormatData(b.data) \o b.previous_hash
        \o FloatStr(b.timestamp) \o b.user \o b.role

calculate_hash(b) ==
    IF CanEncode(block_string(b))
    THEN Ok(sha256_hexdigest(block_string(b)))
    ELSE Raise("UnicodeEncodeError")

Block(index, data, previous_hash, timestamp, role, user) ==
    LET fields == [index |-> index, data |-> data, previous_hash |-> previous_hash,
                   timestamp |-> timestamp, user |-> user, role |-> role]
        h == calculate_hash(fields)
    IN  IF h.exc # "" THEN Raise(h.exc)
        ELSE Ok([index |-> index, data |-> data, previous_hash |-> previous_hash,
                 timestamp |-> timestamp, user |-> user, role |-> role,
                 hash |-> h.val])

PreviewLen == 100

\* x[:n]
Slice(x, n) == [t |-> x.t, v |-> SubSeq(x.v, 1, Min(n, Len(x.v)))]

\* x + y of two sequences: bytes + str (or str + bytes) raises TypeError
PyAdd(x, y) == IF x.t # y.t THEN Raise("TypeError") ELSE Ok([t |-> x.t, v |-> x.v \o y.v])

\* the "Data" entry: self.data[:100] + b"...".decode() if isinstance(self.data, bytes)
\* else str(self.data)[:100]
to_dict_Data(b) ==
    IF b.data.t = "bytes"
    THEN PyAdd(Slice(b.data, PreviewLen), PyStrV(<<".", ".", ".">>))
    ELSE Ok(Slice(PyStrV(FormatData(b.data)), PreviewLen))

to_dict(b) ==
    LET d == to_dict_Data(b)
    IN  IF d.exc # "" THEN Raise(d.exc)
        ELSE Ok([Index |-> b.index,
                 Timestamp |-> FormatTime(b.timestamp),
                 Hash |-> b.hash,
                 PreviousHash |-> b.previous_hash,
                 User |-> b.user,
                 Role |-> b.role,
                 Data |-> d.val])

\* -------------------------------------------------------- Blockchain
GenesisData == <<"G", "e", "n", "e", "s", "i", "s", " ", "B", "l", "o", "c", "k">>
SystemStr == <<"s", "y", "s", "t", "e", "m">>
AdminStr == <<"a", "d", "m", "i", "n">>
StoreData == <<"s", "t", "o", "r", "e", "_", "d", "a", "t", "a">>

\* a genesis block that links to a hash instead of the sentinel
create_genesis_block_linked(t) ==
    Block(0, PyStrV(GenesisData), sha256_hexdigest(<<"0">>), t, SystemStr, AdminStr).val

create_genesis_block(t) ==
    Block(0, PyStrV(GenesisData), <<"0">>, t, SystemStr, AdminStr).val

\* log_access with its first two arguments taken in the other order
log_access_swapped(logs, user, role, action, t) ==
    Append(logs, [user |-> role, role |-> user, action |-> action,
                  timestamp |-> FormatTime(t)])

\* log_access that keeps one entry only
log_access_overwrite(logs, user, role, action, t) ==
    <<[user |-> user, role |-> role, action |-> action, timestamp |-> FormatTime(t)]>>

log_access(logs, user, role, action, t) ==
    Append(logs, [user |-> user, role |-> role, action |-> action,
                  timestamp |-> FormatTime(t)])

\* add_block numbering the new block from 1
add_block_index_from_one(c, logs, data, user, role, t) ==
    LET previous_block == c[Len(c)]
        new_block == Block(Len(c) + 1, data, previous_block.hash, t, role, user)
    IN  IF new_block.exc # ""
        THEN [exc |-> new_block.exc, val |-> <<>>, chain |-> c, access_logs |-> logs]
        ELSE [exc |-> "", val |-> new_block.val,
              chain |-> Append(c, new_block.val),
              access_logs |-> log_access(logs, user, role, StoreData, t)]

\* add_block linking the new block to chain[0] instead of chain[-1]
add_block_link_first(c, logs, data, user, role, t) ==
    LET previous_block == c[1]
        new_block == Block(Len(c), data, previous_block.hash, t, role, user)
    IN  IF new_block.exc # ""
        THEN [exc |-> new_block.exc, val |-> <<>>, chain |-> c, access_logs |-> logs]
        ELSE [exc |-> "", val |-> new_block.val,
              chain |-> Append(c, new_block.val),
              access_logs |-> log_access(logs, user, role, StoreData, t)]

\* add_block writing the log entry before it constructs the block
add_block_log_first(c, logs, data, user, role, t) ==
    LET previous_block == c[Len(c)]
        logged == log_access(logs, user, role, StoreData, t)
        new_block == Block(Len(c), data, previous_block.hash, t, role, user)
    IN  IF new_block.exc # ""
        THEN [exc |-> new_block.exc, val |-> <<>>, chain |-> c, access_logs |-> logged]
        ELSE [exc |-> "", val |-> new_block.val,
              chain |-> Append(c, new_block.val),
              access_logs |-> logged]

\* the Blockchain after add_block(data, user, role) at time t, and what the call returns
add_block(c, logs, data, user, role, t) ==
    LET previous_block == c[Len(c)]
        new_block == Block(Len(c), data, previous_block.hash, t, role, user)
    IN  IF new_block.exc # ""
        THEN [exc |-> new_block.exc, val |-> <<>>, chain |-> c, access_logs |-> logs]
        ELSE [exc |-> "", val |-> new_block.val,
              chain |-> Append(c, new_block.val),
              access_logs |-> log_access(logs, user, role, StoreData, t)]

\* the loop of is_chain_valid without the comparison of previous_hash
RECURSIVE is_chain_valid_no_link(_, _)
is_chain_valid_no_link(c, i) ==
    IF i >= Len(c) THEN Ok(TRUE)
    ELSE LET current == c[i + 1]
             h == calculate_hash(current)
         IN  IF h.exc # "" THEN Raise(h.exc)
             ELSE IF current.hash # h.val THEN Ok(FALSE)
             ELSE is_chain_valid_no_link(c, i + 1)

\* the loop of is_chain_valid from Python index i (position i + 1 of the sequence)
RECURSIVE is_chain_valid_from(_, _)
is_chain_valid_from(c, i) ==
    IF i >= Len(c) THEN Ok(TRUE)
    ELSE LET current == c[i + 1]
             previous == c[i]
             h == calculate_hash(current)
         IN  IF h.exc # "" THEN Raise(h.exc)
             ELSE IF current.hash # h.val THEN Ok(FALSE)
             ELSE IF current.previous_hash # previous.hash THEN Ok(FALSE)
             ELSE is_chain_valid_from(c, i + 1)

is_chain_valid(c) == is_chain_valid_from(c, 1)

RECURSIVE get_all_blocks_from(_, _, _)
get_all_blocks_from(c, i, acc) ==
    IF i > Len(c) THEN Ok(acc)
    ELSE LET d == to_dict(c[i])
         IN  IF d.exc # "" THEN Raise(d.exc)
             ELSE get_all_blocks_from(c, i + 1, Append(acc, d.val))

get_all_blocks(c) == get_all_blocks_from(c, 1, <<>>)

\* ------------------------------------------------------------ inputs
\* the payload main() encrypts and stores, cut down: {"a": 23}
StoredPayload == PyDict(<< <<PyStrV(<<"a">>), PyInt(23)>> >>)

Ciphertext == encrypt_data(StoredPayload, simulate_qkd_key(1), "i").val

\* what callers pass to add_block as data: text, the ciphertext of encrypt_data, and
\* a text that cannot be encoded
DataInputs ==
    {PyStrV(<<"A">>), PyStrV(<<"B">>), Ciphertext, PyStrV(<<"A", Surrogate>>)}

\* (user, role) pairs
Actors == {<<SystemStr, AdminStr>>, <<<<"a", "b">>, <<"c">>>>, <<<<"a">>, <<"b", "c">>>>}

Call(op, arg, r) == [op |-> op, arg |-> arg, exc |-> r.exc, val |-> r.val]

\* the threads that call add_block
Callers == {"c1", "c2"}

\* a caller outside add_block
Idle ==
    [pc |-> "idle", data |-> PyStrV(<<>>), user |-> <<>>, role |-> <<>>,
     previous_block |-> <<>>, new_block |-> <<>>]

NoTamper == [kind |-> "none", k |-> 0, field |-> ""]
NotSealed == [set |-> FALSE, p |-> PyInt(0), key |-> <<>>, token |-> PyBytes(<<>>)]

\* ------------------------------------------------------------- state
\* Blockchain() at time 0; no key generated, nothing encrypted
Init ==
    /\ now = 0
    /\ chain = <<create_genesis_block(0)>>
    /\ access_logs = <<>>
    /\ adds = 0
    /\ ret = Call("Blockchain", <<>>, Ok(<<>>))
    /\ tamper = NoTamper
    /\ keys = {}
    /\ sealed = NotSealed
    /\ calls = [t \in Callers |-> Idle]

\* time passes
Tick ==
    /\ now < MaxTime
    /\ now' = now + 1
    /\ UNCHANGED <<calls, chain, access_logs, adds, ret, tamper, keys, sealed>>

\* one add_block(data, user, role) call, the arguments drawn from D and A
AddBlockWith(D, A) ==
    \E data \in D, actor \in A :
        LET r == add_block(chain, access_logs, data, actor[1], actor[2], now)
        IN  /\ adds < MaxAdds
            /\ chain' = r.chain
            /\ access_logs' = r.access_logs
            /\ adds' = IF r.exc = "" THEN adds + 1 ELSE adds
            /\ ret' = Call("add_block", <<>>, r)
            /\ UNCHANGED <<calls, now, tamper, keys, sealed>>

AddBlock == AddBlockWith(DataInputs, Actors)

IsChainValid ==
    /\ ret' = Call("is_chain_valid", <<>>, is_chain_valid(chain))
    /\ UNCHANGED <<calls, chain, access_logs, now, adds, tamper, keys, sealed>>

GetAllBlocks ==
    /\ ret' = Call("get_all_blocks", <<>>, get_all_blocks(chain))
    /\ UNCHANGED <<calls, chain, access_logs, now, adds, tamper, keys, sealed>>

Next == Tick \/ AddBlock \/ IsChainValid \/ GetAllBlocks

Spec == Init /\ [][Next]_vars

\* ---------------------------------------------- changes from outside
\* the values a field of a block can be overwritten with
FieldValues(f) ==
    CASE f = "index" -> 0..(MaxAdds + 1)
      [] f = "data" -> {PyStrV(<<"A">>), PyStrV(<<"B">>), Ciphertext}
      [] f = "previous_hash" -> {<<"0">>, sha256_hexdigest(<<"0">>)}
                                    \cup {chain[i].hash : i \in 1..Len(chain)}
      [] f = "timestamp" -> 0..(MaxTime + 1)
      [] f \in {"user", "role"} -> {<<"a">>, <<"a", "b">>, <<"c">>, AdminStr}

HashedFields == {"index", "data", "previous_hash", "timestamp", "user", "role"}

\* chain[k].f = v from outside the class, on a chain nothing else has changed; the
\* stored hash stays as it was
TamperField ==
    \E k \in 0..(Len(chain) - 1), f \in HashedFields :
        \E v \in FieldValues(f) :
            /\ tamper.kind = "none"
            /\ v # chain[k + 1][f]
            /\ chain' = [chain EXCEPT ![k + 1][f] = v]
            /\ tamper' = [kind |-> "field", k |-> k, field |-> f]
            /\ ret' = Call("tamper", <<>>, Ok(<<>>))
            /\ UNCHANGED <<calls, access_logs, now, adds, keys, sealed>>

\* chain[k] = a block constructed elsewhere (so its hash matches its fields) whose
\* previous_hash is not the hash of chain[k-1]
SpliceBlock ==
    \E k \in 1..(Len(chain) - 1), data \in {PyStrV(<<"B">>), Ciphertext},
       actor \in {<<SystemStr, AdminStr>>}, t \in 0..MaxTime, index \in 0..MaxAdds :
        \E p \in FieldValues("previous_hash") :
            /\ tamper.kind = "none"
            /\ p # chain[k].hash
            /\ chain' = [chain EXCEPT ![k + 1] =
                            Block(index, data, p, t, actor[2], actor[1]).val]
            /\ tamper' = [kind |-> "splice", k |-> k, field |-> ""]
            /\ ret' = Call("splice", <<>>, Ok(<<>>))
            /\ UNCHANGED <<calls, access_logs, now, adds, keys, sealed>>

\* add_block calls on a chain nothing has changed from outside
AddBlockUntampered ==
    /\ tamper.kind = "none"
    /\ AddBlockWith({PyStrV(<<"A">>), Ciphertext},
                    {<<SystemStr, AdminStr>>, <<<<"a", "b">>, <<"c">>>>})

NextTamper == AddBlockUntampered \/ IsChainValid \/ TamperField \/ SpliceBlock

SpecTamper == Init /\ [][NextTamper]_vars

\* ------------------------------------------------- envelope operations
\* the payloads callers pass to encrypt_data: what JSON holds as it is, tuples, dicts
\* with int keys (DataFrame.to_dict() gives these), and bytes, which json.dumps refuses
Payloads ==
    JsonValues
        \cup {PyTuple(<<a>>) : a \in JsonAtoms}
        \cup {PyDict(<< <<PyInt(1), a>> >>) : a \in JsonAtoms}
        \cup {PyBytes(<<"x">>)}

IVs == {"i", "j"}

\* a key that is not the base64 of 32 bytes
BadKey == <<"x">>

\* a Fernet token of a plaintext that is no JSON text, made with the key elsewhere
ForeignToken(key) == PyBytes(fernet_encrypt(key, "i", <<"?">>))

SimulateQkdKey ==
    \E n \in 1..MaxKeys :
        /\ keys' = keys \cup {simulate_qkd_key(n)}
        /\ ret' = Call("simulate_qkd_key", <<>>, Ok(simulate_qkd_key(n)))
        /\ UNCHANGED <<calls, chain, access_logs, now, adds, tamper, sealed>>

EncryptData ==
    \E p \in Payloads, key \in keys \cup {BadKey}, iv \in IVs :
        LET r == encrypt_data(p, key, iv)
        IN  /\ sealed' = IF r.exc = ""
                         THEN [set |-> TRUE, p |-> p, key |-> key, token |-> r.val]
                         ELSE sealed
            /\ ret' = Call("encrypt_data", <<>>, r)
            /\ UNCHANGED <<calls, chain, access_logs, now, adds, tamper, keys>>

DecryptData ==
    \E key \in keys \cup {BadKey} :
        \E token \in {sealed.token, PyBytes(<<"x">>)} \cup {ForeignToken(k) : k \in keys} :
            /\ ret' = Call("decrypt_data", [token |-> token, key |-> key],
                           decrypt_data(token, key))
            /\ UNCHANGED <<calls, chain, access_logs, now, adds, tamper, keys, sealed>>

NextCrypto == SimulateQkdKey \/ EncryptData \/ DecryptData

SpecCrypto == Init /\ [][NextCrypto]_vars

\* ------------------------------------------------- Block on its own
\* a text of n characters
Text(n) == PyStrV([i \in 1..n |-> "x"])

\* payloads around the preview length, and a ciphertext
PreviewInputs ==
    {PyStrV(<<"A">>), Text(PreviewLen - 1), Text(PreviewLen), Text(PreviewLen + 1),
     Text(PreviewLen + 3), Ciphertext}

\* the six constructor arguments of a block at time t, before it is hashed
HashInputs(t) ==
    [index : {1, 11},
     data : {PyStrV(<<"A">>), PyStrV(<<"1", "A">>)},
     previous_hash : {<<"0">>},
     timestamp : {t},
     user : {<<"a">>, <<"a", "b">>},
     role : {<<"c">>, <<"b", "c">>}]

\* Block(...).to_dict() of a block constructed from the inputs
ToDict ==
    \E data \in PreviewInputs, actor \in Actors :
        LET b == Block(1, data, <<"0">>, now, actor[2], actor[1]).val
        IN  /\ ret' = Call("to_dict", b, to_dict(b))
            /\ UNCHANGED <<calls, chain, access_logs, now, adds, tamper, keys, sealed>>

\* calculate_hash() of two blocks: the strings it encodes and the digests
CalculateHash ==
    \E a \in HashInputs(now), b \in HashInputs(now) :
        /\ ret' = Call("calculate_hash", [a |-> a, b |-> b],
                       Ok([strings |-> <<block_string(a), block_string(b)>>,
                           hashes |-> <<calculate_hash(a).val, calculate_hash(b).val>>]))
        /\ UNCHANGED <<calls, chain, access_logs, now, adds, tamper, keys, sealed>>

NextBlock == Tick \/ ToDict \/ CalculateHash

SpecBlock == Init /\ [][NextBlock]_vars

\* ------------------------------------------- add_block line by line
StepData == {PyStrV(<<"A">>), Ciphertext, PyStrV(<<"A", Surrogate>>)}
StepActors == {<<SystemStr, AdminStr>>, <<<<"a", "b">>, <<"c">>>>}

AllIdle == \A t \in Callers : calls[t].pc = "idle"
InFlight == Cardinality({t \in Callers : calls[t].pc # "idle"})

\* the call and line 75: previous_block = self.chain[-1]
AddBlockRead(t) ==
    \E data \in StepData, actor \in StepActors :
        /\ calls[t].pc = "idle"
        /\ adds + InFlight < MaxAdds
        /\ calls' = [calls EXCEPT ![t] =
                        [pc |-> "76", data |-> data, user |-> actor[1], role |-> actor[2],
                         previous_block |-> chain[Len(chain)], new_block |-> <<>>]]
        /\ UNCHANGED <<chain, access_logs, now, adds, ret, tamper, keys, sealed>>

\* line 76: new_block = Block(len(self.chain), data, previous_block.hash, ...); an
\* exception ends the call
AddBlockConstruct(t) ==
    LET c == calls[t]
        b == Block(Len(chain), c.data, c.previous_block.hash, now, c.role, c.user)
    IN  /\ c.pc = "76"
        /\ IF b.exc # ""
           THEN /\ calls' = [calls EXCEPT ![t] = Idle]
                /\ ret' = Call("add_block", <<>>, Raise(b.exc))
           ELSE /\ calls' = [calls EXCEPT ![t].pc = "77", ![t].new_block = b.val]
                /\ UNCHANGED ret
        /\ UNCHANGED <<chain, access_logs, now, adds, tamper, keys, sealed>>

\* line 77: self.chain.append(new_block)
AddBlockAppend(t) ==
    /\ calls[t].pc = "77"
    /\ chain' = Append(chain, calls[t].new_block)
    /\ calls' = [calls EXCEPT ![t].pc = "78"]
    /\ UNCHANGED <<access_logs, now, adds, ret, tamper, keys, sealed>>

\* lines 78 and 79: self.log_access(user, role, "store_data"); return new_block
AddBlockLog(t) ==
    /\ calls[t].pc = "78"
    /\ access_logs' = log_access(access_logs, calls[t].user, calls[t].role, StoreData, now)
    /\ adds' = adds + 1
    /\ ret' = Call("add_block", <<>>, Ok(calls[t].new_block))
    /\ calls' = [calls EXCEPT ![t] = Idle]
    /\ UNCHANGED <<chain, now, tamper, keys, sealed>>

\* reads between the calls of a single caller
IsChainValidIdle == AllIdle /\ IsChainValid
GetAllBlocksIdle == AllIdle /\ GetAllBlocks

\* one caller: every call runs to its end before the next starts
NextSeq ==
    \/ Tick
    \/ AddBlockRead("c1") \/ AddBlockConstruct("c1")
    \/ AddBlockAppend("c1") \/ AddBlockLog("c1")
    \/ IsChainValidIdle \/ GetAllBlocksIdle

SpecSeq == Init /\ [][NextSeq]_vars

\* two threads calling add_block on one Blockchain, the interpreter switching between
\* them at any line; nothing in the class excludes it
NextConc ==
    \/ \E t \in Callers :
          \/ AddBlockRead(t) \/ AddBlockConstruct(t)
          \/ AddBlockAppend(t) \/ AddBlockLog(t)
    \/ IsChainValid \/ GetAllBlocks

SpecConc == Init /\ [][NextConc]_vars

\* ------------------------------------------------------------ claims
\* C1: a Blockchain on which no add_block call has returned a block holds exactly one
\* block, with index 0 and previous_hash "0", and its access_logs is empty.
C1_GenesisOnly ==
    adds = 0 =>
        /\ Len(chain) = 1
        /\ chain[1].index = 0
        /\ chain[1].previous_hash = <<"0">>
        /\ access_logs = <<>>

C1_Witness == ret.op = "Blockchain" /\ adds = 0 /\ Len(chain) = 1

\* C2: after N successful add_block calls the chain has length N + 1 and the block at
\* Python position i has index i.
C2_ChainGrowth ==
    /\ Len(chain) = adds + 1
    /\ \A i \in 1..Len(chain) : chain[i].index = i - 1

C2_Witness == adds = MaxAdds /\ ret.op = "add_block" /\ ret.exc = ""

\* C3: on a chain built by construction and add_block only, every block after the
\* first carries the hash of the block before it, and is_chain_valid() returns True
\* at every length, the genesis-only chain included.
C3_LinkedAndValid ==
    /\ \A i \in 2..Len(chain) : chain[i].previous_hash = chain[i - 1].hash
    /\ is_chain_valid(chain) = Ok(TRUE)
    /\ ret.op = "is_chain_valid" => ret.exc = "" /\ ret.val = TRUE

C3_Witness == ret.op = "is_chain_valid" /\ Len(chain) = MaxAdds + 1

\* C6: access_logs has one entry less than the chain has blocks.
C6_LogParity == Len(access_logs) = Len(chain) - 1

C6_Witness == Len(access_logs) = MaxAdds /\ adds = MaxAdds

\* C7: a step in which add_block raises leaves the chain and the access log as they
\* were.
C7_FailedAddChangesNothing ==
    [][ret'.op = "add_block" /\ ret'.exc # ""
          => chain' = chain /\ access_logs' = access_logs]_vars

C7_Witness ==
    ret.op = "add_block" /\ ret.exc = "UnicodeEncodeError" /\ Len(chain) > 1

\* C10: get_all_blocks() returns without error one summary per block, the summary at
\* Python position i having Index i, whatever payloads the chain stores.
C10_GetAllBlocksTotal ==
    ret.op = "get_all_blocks" =>
        /\ ret.exc = ""
        /\ Len(ret.val) = Len(chain)
        /\ \A i \in 1..Len(chain) : ret.val[i].Index = i - 1

\* C4: after one hashed field of one block, the genesis block included, was changed
\* to a different value and its hash left alone, is_chain_valid() returns False.
C4_FieldTamperDetected ==
    ret.op = "is_chain_valid" /\ tamper.kind = "field" =>
        ret.exc = "" /\ ret.val = FALSE

\* C5: after chain[k], k >= 1, was replaced with a block whose hash matches its own
\* fields and whose previous_hash is not the hash of chain[k-1], is_chain_valid()
\* returns False.
C5_SpliceDetected ==
    ret.op = "is_chain_valid" /\ tamper.kind = "splice" =>
        ret.exc = "" /\ ret.val = FALSE

C5_Witness ==
    /\ ret.op = "is_chain_valid"
    /\ tamper.kind = "splice"
    /\ tamper.k = Len(chain) - 1
    /\ calculate_hash(chain[tamper.k + 1]) = Ok(chain[tamper.k + 1].hash)
    /\ chain[tamper.k + 1].previous_hash # chain[tamper.k].hash

\* C8: decrypting the token of the last encrypt_data call with the key of that call
\* returns the payload that was encrypted.
C8_RoundTrip ==
    /\ ret.op = "decrypt_data"
    /\ sealed.set
    /\ ret.arg.token = sealed.token
    /\ ret.arg.key = sealed.key
    => ret.exc = "" /\ ret.val = sealed.p

\* C9: decrypting the token of an encrypt_data call with another generated key raises
\* InvalidToken and returns nothing; a token that verifies and holds no JSON text
\* raises JSONDecodeError, a different exception.
C9_WrongKeyRejected ==
    ret.op = "decrypt_data" /\ ret.arg.key \in keys =>
        /\ sealed.set /\ ret.arg.token = sealed.token /\ ret.arg.key # sealed.key
              => ret.exc = "InvalidToken"
        /\ ret.arg.token = ForeignToken(ret.arg.key)
              => ret.exc = "JSONDecodeError"

C9_Witness ==
    /\ ret.op = "decrypt_data"
    /\ sealed.set
    /\ ret.arg.token = sealed.token
    /\ ret.arg.key \in keys
    /\ ret.arg.key # sealed.key
    /\ ret.exc = "InvalidToken"

\* C11: the Data entry of a summary ends with the marker "..." exactly when the
\* payload is longer than the preview length, and holds at most that many characters
\* of the payload before it.
HasMarker(d) == Len(d) >= 3 /\ SubSeq(d, Len(d) - 2, Len(d)) = <<".", ".", ".">>

C11_PreviewMarked ==
    ret.op = "to_dict" /\ ret.exc = "" =>
        LET payload == FormatData(ret.arg.data)
            d == ret.val.Data.v
        IN  /\ HasMarker(d) <=> Len(payload) > PreviewLen
            /\ Len(d) <= PreviewLen + 3

\* C12: two blocks whose six hashed fields differ never give calculate_hash the same
\* string to digest.
C12_HashInputUnambiguous ==
    ret.op = "calculate_hash" /\ ret.arg.a # ret.arg.b =>
        ret.val.strings[1] # ret.val.strings[2]

\* C13: with one caller, every access log entry sits one position below a block that is
\* already in the chain and carries that block's user and role and the action
\* "store_data"; between calls there is one entry per block after the first.
C13_LogFollowsBlock ==
    /\ \A i \in 1..Len(access_logs) :
          /\ i + 1 <= Len(chain)
          /\ access_logs[i].user = chain[i + 1].user
          /\ access_logs[i].role = chain[i + 1].role
          /\ access_logs[i].action = StoreData
    /\ AllIdle => Len(access_logs) = Len(chain) - 1

C13_Witness ==
    /\ calls["c1"].pc = "78"
    /\ Len(chain) = Len(access_logs) + 2
    /\ Len(access_logs) >= 1
    /\ chain[Len(chain)].user # chain[Len(chain)].role

\* C14: every step leaves the chain it found as a prefix of the chain it leaves, and
\* the access log it found as a prefix of the access log it leaves.
IsPrefix(s, t) == Len(s) <= Len(t) /\ SubSeq(t, 1, Len(s)) = s

C14_AppendOnly ==
    [][IsPrefix(chain, chain') /\ IsPrefix(access_logs, access_logs')]_vars

C14_Witness ==
    /\ Len(chain) = MaxAdds + 1
    /\ Len(access_logs) = MaxAdds
    /\ ret.op \in {"is_chain_valid", "get_all_blocks"}

\* C15: once two add_block calls that ran at the same time have both returned, the
\* blocks are numbered by their positions, each links to the one before it, and
\* is_chain_valid() returns True.
C15_ConcurrentAppendsSerialized ==
    AllIdle /\ adds >= 2 =>
        /\ \A i \in 1..Len(chain) : chain[i].index = i - 1
        /\ \A i \in 2..Len(chain) : chain[i].previous_hash = chain[i - 1].hash
        /\ is_chain_valid(chain) = Ok(TRUE)

====
